---- MODULE Spec2Model ----
(***************************************************************************)
(* RSSService (src/app/rss_service.py): the subscriber registry, the       *)
(* per-feed watermark map, their two JSON files, and the hourly poll cycle *)
(* check_updates, run on the scheduler thread while add_feed / remove_feed *)
(* requests are served on request threads of the same process.             *)
(***************************************************************************)
EXTENDS Integers, Sequences, FiniteSets, TLC

\* ------------------------------------------------------------------ bounds
MaxTime == 3        \* the clock runs from 1 to MaxTime (abstract seconds)
MaxEntries == 1     \* entries the feeds publish in one run
MaxIndex == 2       \* largest feed_index a remove request carries
MaxRequests == 2    \* add_feed / remove_feed requests served in one run
MaxListing == 6     \* entries a feed lists when one fetch is looked at alone

Users == {"u1", "u2"}
Urls == {"a", "b", "c"}
EntryIds == 1..MaxEntries
Times == 0..MaxTime
Indexes == (0 - 1)..MaxIndex

\* ------------------------------------------------------- program constants
MaxShown == 5       \* new_entries[:5]
DefaultLastCheck == 0  \* self.last_check.get(url, 0)

\* rss_service.py imports feedparser, datetime, json, os and apscheduler; the
\* name TextSendMessage, used at line 129, is bound nowhere in the module.
TextSendMessageBound == FALSE

\* ------------------------------------------------------------ pure helpers
None == <<>>        \* Python's None / a missing key; falsy like the empty tuple
NoName == ""        \* name=None (or empty): `if not name`

Truthy(x) == x # <<>>

\* time.struct_time of second t of 1970-01-01 (UTC), as feedparser yields it
StructTime(t) == <<1970, 1, 1, t \div 3600, (t \div 60) % 60, t % 60, 3, 1, 0>>

\* days from 1970-01-01 to the civil date y-m-d (proleptic Gregorian)
DaysFromCivil(y, m, d) ==
    LET yy  == IF m <= 2 THEN y - 1 ELSE y
        era == yy \div 400
        yoe == yy - era * 400
        mp  == IF m > 2 THEN m - 3 ELSE m + 9
        doy == (153 * mp + 2) \div 5 + d - 1
        doe == yoe * 365 + yoe \div 4 - yoe \div 100 + doy
    IN era * 146097 + doe - 719468

\* datetime(*published[:6], tzinfo=timezone.utc).timestamp()
Timestamp(published) ==
    LET p == SubSeq(published, 1, 6)
    IN DaysFromCivil(p[1], p[2], p[3]) * 86400 + p[4] * 3600 + p[5] * 60 + p[6]

\* feed.feed.get('title', url): feed "a" carries a title, feed "b" none
FeedTitle(url) == IF url = "a" THEN "Ta" ELSE url

\* dict helpers (self.last_check): a function whose domain is the key set
EmptyDict == [k \in {} |-> 0]
DictGet(d, k, default) == IF k \in DOMAIN d THEN d[k] ELSE default
DictSet(d, k, v) == [x \in (DOMAIN d) \cup {k} |-> IF x = k THEN v ELSE d[x]]

\* self.feeds: an insertion-ordered dict user_id -> list, as the sequence of
\* its items [user_id, subs]
HasKey(d, u) == \E i \in 1..Len(d) : d[i].user_id = u
KeyIdx(d, u) == CHOOSE i \in 1..Len(d) : d[i].user_id = u
Subs(d, u) == IF HasKey(d, u) THEN d[KeyIdx(d, u)].subs ELSE <<>>
SetSubs(d, u, l) ==
    IF HasKey(d, u)
    THEN [d EXCEPT ![KeyIdx(d, u)] = [user_id |-> u, subs |-> l]]
    ELSE Append(d, [user_id |-> u, subs |-> l])

\* the duplicate check compares the wrong field
HasUrlByName(l, url) == \E i \in 1..Len(l) : l[i].name = url

\* lines 59-61: the subscriber's list already holds the address
HasUrl(l, url) == \E i \in 1..Len(l) : l[i].url = url
\* every (subscriber, address) pair of the registry
Pairs(d) ==
    UNION {{<<d[i].user_id, d[i].subs[j].url>> : j \in 1..Len(d[i].subs)} :
           i \in 1..Len(d)}

Ids(entries) == {entries[i].id : i \in 1..Len(entries)}

\* the comparison lets the watermark's own second through
IsNewOrEqual(published_time, last_check) == published_time >= last_check

\* line 118: published_time > last_check
IsNew(published_time, last_check) == published_time > last_check

\* lines 112-119: the loop that collects new_entries, in feed order
RECURSIVE SelectNew(_, _)
SelectNew(entries, last) ==
    IF entries = <<>> THEN <<>>
    ELSE LET entry == Head(entries)
             published == entry.published_parsed
             rest == SelectNew(Tail(entries), last)
         IN IF Truthy(published) /\ IsNew(Timestamp(published), last)
            THEN <<entry>> \o rest
            ELSE rest

\* lines 123-126: the message lists new_entries[:5], one title and link each
Compose(entries) ==
    LET shown == SubSeq(entries, 1, IF Len(entries) < MaxShown
                                    THEN Len(entries) ELSE MaxShown)
    IN [i \in 1..Len(shown) |-> shown[i].id]

\* lines 128-131: push_message(user_id, TextSendMessage(text=message)) inside
\* try/except Exception.  The argument is evaluated first; with the name
\* unbound that raises NameError, which the except clause swallows, and
\* push_message is not entered.  The result is the list of calls made.
Dispatch(to, text) ==
    IF TextSendMessageBound THEN <<[to |-> to, text |-> text]>> ELSE <<>>

\* ---------------------------------------------------------------- state
VARIABLES
    feeds,            \* self.feeds (in memory)
    last_check,       \* self.last_check (in memory)
    feeds_file,       \* rss_feeds.json
    last_check_file,  \* last_check.json
    ret,              \* what the last add_feed / remove_feed returned
    now,              \* datetime.now(timezone.utc).timestamp()
    web,              \* url -> the entries the feed lists, newest first
    pc,               \* where check_updates stands
    di_used, di_pos,  \* the dict iterator of line 102
    user_id,          \* check_updates' locals
    li_index,         \* the list iterator of line 103
    url, name, lc, parsed, new_entries, message,
    pushed,           \* push_message calls made for the current feed
    \* history (read by the properties only)
    notifiedPrev,     \* <<user, url, id>> put in a message in an earlier cycle
    notifiedCur,      \* ... in the cycle that runs, or ran last
    selected,         \* <<user, url, id>> ever collected in new_entries
    fresh,            \* <<user, url, id>>: id appeared while user held url
    polled,           \* fresh triples a completed poll of (user, url) fetched
    visits,           \* pair in the registry since the cycle began -> times
                      \* the loop body ran for it
    requests,         \* requests served so far
    \* a second worker process of the same deployment (gunicorn_config.py)
    peer_feeds,       \* its self.feeds
    peer_last_check,  \* its self.last_check
    peer_pc,          \* where its check_updates stands
    peer_todo,        \* the subscriptions its cycle has still to process
    \* more history
    call,             \* the arguments of the last add_feed / remove_feed
    since,            \* <<user, url>> in the registry -> the time it was added
    due,              \* <<user, url, id>>: id was above url's watermark and
                      \* user held url when the running cycle started
    \* the album backup of a group chat (app.py, album_backup_service.py)
    albums_record,    \* self.albums_record: group -> album id -> its record
    album_photos,     \* album id -> the photo ids of the album, in order
    event,            \* the text message event that was handled last
    reply             \* what reply_message sent for it

prog == <<feeds, last_check, feeds_file, last_check_file, ret>>
env == <<now, web>>
locals == <<user_id, li_index, url, name, lc, parsed, new_entries, message, pushed>>
cycle == <<pc, di_used, di_pos>>
hist == <<notifiedPrev, notifiedCur, selected, fresh, polled, visits>>
peer == <<peer_feeds, peer_last_check, peer_pc, peer_todo>>
notes == <<call, since, due>>
backup == <<albums_record, album_photos, event, reply>>
aside == <<hist, peer, notes, backup>>
vars == <<prog, env, locals, cycle, requests, hist, peer, notes, backup>>

\* no album is backed up, no album holds a photo, no message has come
NoEvent == [text |-> <<>>, source |-> "user"]
NoReply == [kind |-> "none", album_name |-> <<>>, count |-> 0, status |-> <<>>]
NoBackup ==
    /\ albums_record = EmptyDict
    /\ album_photos = [al \in {} |-> <<>>]
    /\ event = NoEvent
    /\ reply = NoReply

NoRet == [ok |-> FALSE, kind |-> "none", name |-> ""]
NoParse == [bozo |-> FALSE, entries |-> <<>>]
NoCall == [op |-> "none", user_id |-> "", url |-> "", name |-> "",
           bozo |-> FALSE, feed_index |-> 0]

NoLocals ==
    /\ user_id' = ""
    /\ li_index' = 0
    /\ url' = ""
    /\ name' = ""
    /\ lc' = 0
    /\ parsed' = NoParse
    /\ new_entries' = <<>>
    /\ message' = <<>>
    /\ pushed' = <<>>

\* RSSService.__init__ in a fresh deployment: neither file exists
Init ==
    /\ feeds = <<>>
    /\ last_check = EmptyDict
    /\ feeds_file = <<>>
    /\ last_check_file = EmptyDict
    /\ ret = NoRet
    /\ now = 1
    /\ web = [u \in Urls |-> <<>>]
    /\ pc = "idle"
    /\ di_used = 0
    /\ di_pos = 0
    /\ user_id = ""
    /\ li_index = 0
    /\ url = ""
    /\ name = ""
    /\ lc = 0
    /\ parsed = NoParse
    /\ new_entries = <<>>
    /\ message = <<>>
    /\ pushed = <<>>
    /\ notifiedPrev = {}
    /\ notifiedCur = {}
    /\ selected = {}
    /\ fresh = {}
    /\ polled = {}
    /\ visits = EmptyDict
    /\ requests = 0
    /\ peer_feeds = <<>>
    /\ peer_last_check = EmptyDict
    /\ peer_pc = "idle"
    /\ peer_todo = <<>>
    /\ call = NoCall
    /\ since = EmptyDict
    /\ due = {}
    /\ NoBackup

\* ------------------------------------------------------------ requests
\* a new subscription starts from the beginning of time
InitialWatermarkZero(t) == 0

\* line 71: the watermark add_feed gives the address
InitialWatermark(t) == t

\* every address is taken for a feed
InvalidNever(bozo) == FALSE

\* line 47: `if feed.get('bozo', 1)`
Invalid(bozo) == bozo

\* the title and the address are never used
ResolveNameGiven(n, a) == n

\* lines 51-52: `if not name: name = feed.feed.get('title', url)`
ResolveName(n, a) == IF n = NoName THEN FeedTitle(a) ELSE n

\* add_feed(user_id, url, name), lines 42-76; bozo is what feedparser reports
add_feed(u, a, n, bozo) ==
    LET nm == ResolveName(n, a)
        d1 == IF HasKey(feeds, u) THEN feeds
              ELSE Append(feeds, [user_id |-> u, subs |-> <<>>])
    IN IF Invalid(bozo)
       THEN /\ ret' = [ok |-> FALSE, kind |-> "invalid", name |-> ""]
            /\ UNCHANGED <<feeds, last_check, feeds_file, last_check_file>>
       ELSE IF HasUrl(Subs(d1, u), a)
       THEN /\ feeds' = d1
            /\ ret' = [ok |-> FALSE, kind |-> "duplicate", name |-> ""]
            /\ UNCHANGED <<last_check, feeds_file, last_check_file>>
       ELSE /\ feeds' = SetSubs(d1, u, Append(Subs(d1, u), [url |-> a, name |-> nm]))
            /\ feeds_file' = feeds'
            /\ last_check' = DictSet(last_check, a, InitialWatermark(now))
            /\ last_check_file' = last_check'
            /\ ret' = [ok |-> TRUE, kind |-> "subscribed", name |-> nm]

\* a request thread serves 'rss add'
AddFeed(u, a, n) ==
    /\ requests < MaxRequests
    /\ requests' = requests + 1
    /\ \E bozo \in BOOLEAN : add_feed(u, a, n, bozo)
    /\ UNCHANGED <<env, locals, cycle>>

\* list.pop(feed_index): the 1-based position removed, 0 for IndexError
PopPos(len, feed_index) ==
    IF feed_index >= 0 THEN feed_index + 1
    ELSE IF len + feed_index >= 0 THEN len + feed_index + 1 ELSE 0

\* the last element goes, whatever the position
RemoveLast(l, pos) == SubSeq(l, 1, Len(l) - 1)

\* what list.pop leaves of the list
RemoveAt(l, pos) == SubSeq(l, 1, pos - 1) \o SubSeq(l, pos + 1, Len(l))

\* line 81: the guard of remove_feed
NotFound(d, u, feed_index) == ~HasKey(d, u) \/ feed_index >= Len(Subs(d, u))

\* remove_feed(user_id, feed_index), lines 78-88
remove_feed(u, feed_index) ==
    LET l == Subs(feeds, u)
        pos == PopPos(Len(l), feed_index)
    IN IF NotFound(feeds, u, feed_index)
       THEN /\ ret' = [ok |-> FALSE, kind |-> "notfound", name |-> ""]
            /\ UNCHANGED <<feeds, feeds_file>>
       ELSE IF pos = 0
       THEN /\ ret' = [ok |-> FALSE, kind |-> "error", name |-> ""]
            /\ UNCHANGED <<feeds, feeds_file>>
       ELSE /\ feeds' = SetSubs(feeds, u, RemoveAt(l, pos))
            /\ feeds_file' = feeds'
            /\ ret' = [ok |-> TRUE, kind |-> "removed", name |-> l[pos].name]

\* a request thread serves 'rss remove'
RemoveFeed(u, feed_index) ==
    /\ requests < MaxRequests
    /\ requests' = requests + 1
    /\ remove_feed(u, feed_index)
    /\ UNCHANGED <<last_check, last_check_file, env, locals, cycle>>

\* list_feeds(user_id), lines 90-98: nothing to show, or one numbered line
\* (i + 1, name) for each subscription, in list order
list_feeds(d, u) ==
    IF ~HasKey(d, u) \/ Subs(d, u) = <<>> THEN <<>>
    ELSE [i \in 1..Len(Subs(d, u)) |-> [no |-> (i - 1) + 1, name |-> Subs(d, u)[i].name]]

\* ---------------------------------------------------------- environment
\* the clock never goes backwards
Tick ==
    /\ now < MaxTime
    /\ now' = now + 1
    /\ UNCHANGED <<prog, web, locals, cycle, requests>>

Published == UNION {Ids(web[a]) : a \in Urls}

\* a feed lists a new entry (the next id), with or without a parsable date
Publish(a, published) ==
    /\ Cardinality(Published) < MaxEntries
    /\ web' = [web EXCEPT ![a] =
                 <<[id |-> Cardinality(Published) + 1,
                    published_parsed |-> published]>> \o @]
    /\ UNCHANGED <<prog, now, locals, cycle, requests>>

\* the process is stopped and started again: __init__ loads both files
Restart ==
    /\ feeds' = feeds_file
    /\ last_check' = last_check_file
    /\ ret' = NoRet
    /\ pc' = "idle"
    /\ di_used' = 0
    /\ di_pos' = 0
    /\ NoLocals
    /\ UNCHANGED <<feeds_file, last_check_file, env, requests>>

\* --------------------------------------------------------- check_updates
\* the size check of the dict iterator's next()
SizeChanged(used, d) == used # Len(d)

\* lines 102-103: the two for statements, run from the dict iterator at its
\* pos-th key and the list iterator at index idx up to the next subscription
\* to fetch.  The list iterator yields while idx is inside the list as it is
\* now; the dict iterator first compares the dict's size with the size it
\* was created with (RuntimeError when they differ), then ends or yields.
RECURSIVE Seek(_, _, _, _)
Seek(d, used, pos, idx) ==
    IF pos > 0 /\ idx < Len(d[pos].subs)
    THEN [pc |-> "fetching", di_pos |-> pos, li_index |-> idx + 1]
    ELSE IF SizeChanged(used, d)
    THEN [pc |-> "raised", di_pos |-> pos, li_index |-> idx]
    ELSE IF pos >= Len(d)
    THEN [pc |-> "done", di_pos |-> pos, li_index |-> idx]
    ELSE Seek(d, used, pos + 1, 0)

\* lines 104-106 for the subscription the loops stopped at, or the end of
\* check_updates (by return or by the exception)
Enter(r) ==
    /\ pc' = r.pc
    /\ IF r.pc = "fetching"
       THEN /\ di_pos' = r.di_pos
            /\ li_index' = r.li_index
            /\ user_id' = feeds[r.di_pos].user_id
            /\ url' = feeds[r.di_pos].subs[r.li_index].url
            /\ name' = feeds[r.di_pos].subs[r.li_index].name
            /\ lc' = DictGet(last_check, feeds[r.di_pos].subs[r.li_index].url,
                             DefaultLastCheck)
            /\ parsed' = NoParse
            /\ new_entries' = <<>>
            /\ message' = <<>>
            /\ pushed' = <<>>
       ELSE /\ di_pos' = 0
            /\ NoLocals

\* the hourly trigger fires: check_updates starts and runs to its first fetch
StartCycle ==
    /\ pc \in {"idle", "done", "raised"}
    /\ now < MaxTime
    /\ now' = now + 1
    /\ di_used' = Len(feeds)
    /\ Enter(Seek(feeds, Len(feeds), 0, 0))
    /\ UNCHANGED <<prog, web, requests>>

\* the loop body ended (line 110 or line 135): on to the next subscription
Advance ==
    /\ pc \in {"skipped", "processed"}
    /\ Enter(Seek(feeds, di_used, di_pos, li_index))
    /\ UNCHANGED <<prog, env, di_used, requests>>

\* the bozo flag is not looked at
AfterParseIgnoreBozo(bozo) == "parsed"

\* lines 109-110: `if parsed.get('bozo', 1): continue`
AfterParse(bozo) == IF bozo THEN "skipped" ELSE "parsed"

\* lines 108-110: feedparser.parse(url) returns what the feed lists, with
\* the bozo flag set when it met a structural error; a bozo feed is skipped
Fetch ==
    /\ pc = "fetching"
    /\ \E bozo \in BOOLEAN :
         /\ parsed' = [bozo |-> bozo, entries |-> web[url]]
         /\ pc' = AfterParse(bozo)
    /\ UNCHANGED <<prog, env, di_used, di_pos, user_id, li_index, url, name, lc,
                   new_entries, message, pushed, requests>>

RECURSIVE Newest(_)
Newest(entries) ==
    IF entries = <<>> THEN 0
    ELSE LET p == Head(entries).published_parsed
             t == IF Truthy(p) THEN Timestamp(p) ELSE 0
             m == Newest(Tail(entries))
         IN IF t > m THEN t ELSE m

\* the watermark follows the newest entry seen instead of the clock
WatermarkNewest(entries, t) == IF Newest(entries) > 0 THEN Newest(entries) ELSE t

\* line 134: the watermark the body leaves for the feed
Watermark(entries, t) == t

\* lines 112-135 for a feed that parsed
Process ==
    /\ pc = "parsed"
    /\ LET sel == SelectNew(parsed.entries, lc)
           msg == IF sel # <<>> THEN Compose(sel) ELSE <<>>
       IN /\ new_entries' = sel
          /\ message' = msg
          /\ pushed' = IF sel # <<>> THEN Dispatch(user_id, msg) ELSE <<>>
    /\ last_check' = DictSet(last_check, url, Watermark(parsed.entries, now))
    /\ last_check_file' = last_check'
    /\ pc' = "processed"
    /\ UNCHANGED <<feeds, feeds_file, ret, env, di_used, di_pos, user_id, li_index,
                   url, name, lc, parsed, requests>>

\* ------------------------------------------------------------- inputs
\* published_parsed of a new entry: none, a past second or a coming one
Stamps == {None} \cup {StructTime(t) : t \in Times}

\* the feeds that list entries in the runs explored (the other stays empty)
EntryUrls == {"a"}

\* the add requests tried: a name given, a name taken from the feed's title,
\* and a name that falls back to the address
AddInputs == {<<"u1", "a", NoName>>, <<"u1", "b", NoName>>, <<"u2", "a", "N">>}

\* ------------------------------------------------------- specification
Next ==
    \/ \E r \in AddInputs : AddFeed(r[1], r[2], r[3]) /\ UNCHANGED aside
    \/ \E u \in Users, i \in Indexes : RemoveFeed(u, i) /\ UNCHANGED aside
    \/ Tick /\ UNCHANGED aside
    \/ \E a \in EntryUrls, p \in Stamps : Publish(a, p) /\ UNCHANGED aside
    \/ Restart /\ UNCHANGED aside
    \/ StartCycle /\ UNCHANGED aside
    \/ Advance /\ UNCHANGED aside
    \/ Fetch /\ UNCHANGED aside
    \/ Process /\ UNCHANGED aside

Spec == Init /\ [][Next]_vars

\* ------------------------------------------------- a crash inside add_feed
\* add_feed runs up to line 68 (the registry is saved with the new
\* subscription) and the process is killed before line 71 writes the
\* watermark; the process starts again and __init__ loads both files.
CrashInAdd(u, a, n) ==
    LET d1 == IF HasKey(feeds, u) THEN feeds
              ELSE Append(feeds, [user_id |-> u, subs |-> <<>>])
    IN /\ requests < MaxRequests
       /\ requests' = requests + 1
       /\ ~HasUrl(Subs(d1, u), a)
       /\ feeds_file' = SetSubs(d1, u, Append(Subs(d1, u),
                                  [url |-> a, name |-> ResolveName(n, a)]))
       /\ feeds' = feeds_file'
       /\ last_check' = last_check_file
       /\ ret' = NoRet
       /\ pc' = "idle"
       /\ di_used' = 0
       /\ di_pos' = 0
       /\ NoLocals
       /\ UNCHANGED <<last_check_file, env>>

\* the time each subscription of the registry was added
ObsSince ==
    /\ since' = [q \in Pairs(feeds') |->
                   IF q \in DOMAIN since /\ q \in Pairs(feeds) THEN since[q] ELSE now]
    /\ UNCHANGED <<hist, peer, call, due, backup>>

NextCrash ==
    \/ \E r \in AddInputs : AddFeed(r[1], r[2], r[3]) /\ ObsSince
    \/ \E r \in AddInputs : CrashInAdd(r[1], r[2], r[3]) /\ ObsSince
    \/ \E u \in Users, i \in Indexes : RemoveFeed(u, i) /\ ObsSince
    \/ Tick /\ UNCHANGED aside
    \/ \E a \in EntryUrls, p \in Stamps : Publish(a, p) /\ UNCHANGED aside
    \/ Restart /\ UNCHANGED aside
    \/ StartCycle /\ UNCHANGED aside
    \/ Advance /\ UNCHANGED aside
    \/ Fetch /\ UNCHANGED aside
    \/ Process /\ UNCHANGED aside

\* the program with processes that can die between the two writes of add_feed
SpecCrash == Init /\ [][NextCrash]_vars

\* -------------------------------------------------- requests on their own
\* add_feed and remove_feed served one after another on a registry that
\* earlier requests have built, with the arguments of each call written down.
AddFeedCall(u, a, n, bozo) ==
    /\ requests < MaxRequests
    /\ requests' = requests + 1
    /\ add_feed(u, a, n, bozo)
    /\ call' = [op |-> "add", user_id |-> u, url |-> a, name |-> n,
                bozo |-> bozo, feed_index |-> 0]
    /\ UNCHANGED <<env, locals, cycle, hist, peer, since, due, backup>>

RemoveFeedCall(u, feed_index) ==
    /\ RemoveFeed(u, feed_index)
    /\ call' = [op |-> "remove", user_id |-> u, url |-> "", name |-> "",
                bozo |-> FALSE, feed_index |-> feed_index]
    /\ UNCHANGED <<hist, peer, since, due, backup>>

\* the lists a subscriber can have built: every address at most once
Lists == {l \in UNION {[1..n -> Urls] : n \in 1..Cardinality(Urls)} :
            \A i, j \in 1..Len(l) : l[i] = l[j] => i = j}

\* the registry item of subscriber u after 'rss add <url>' for each address
Item(u, l) == [user_id |-> u,
               subs |-> [i \in 1..Len(l) |-> [url |-> l[i], name |-> FeedTitle(l[i])]]]

\* registries that adds at time 1 leave, with the watermarks they set
InitRegistries ==
    {<<>>} \cup {<<Item("u1", l)>> : l \in Lists}
           \cup {<<Item("u1", l), Item("u2", <<"a">>)>> : l \in Lists}

InitRequests ==
    /\ feeds \in InitRegistries
    /\ last_check = [a \in {q[2] : q \in Pairs(feeds)} |-> 1]
    /\ feeds_file = feeds
    /\ last_check_file = last_check
    /\ ret = NoRet
    /\ now = 2
    /\ web = [u \in Urls |-> <<>>]
    /\ pc = "idle"
    /\ di_used = 0
    /\ di_pos = 0
    /\ user_id = ""
    /\ li_index = 0
    /\ url = ""
    /\ name = ""
    /\ lc = 0
    /\ parsed = NoParse
    /\ new_entries = <<>>
    /\ message = <<>>
    /\ pushed = <<>>
    /\ notifiedPrev = {}
    /\ notifiedCur = {}
    /\ selected = {}
    /\ fresh = {}
    /\ polled = {}
    /\ visits = EmptyDict
    /\ requests = 0
    /\ peer_feeds = <<>>
    /\ peer_last_check = EmptyDict
    /\ peer_pc = "idle"
    /\ peer_todo = <<>>
    /\ call = NoCall
    /\ since = EmptyDict
    /\ due = {}
    /\ NoBackup

\* the names 'rss add' passes: none, or the words after the address
Names == {NoName, "N"}

NextRequests ==
    \/ \E u \in Users, a \in Urls, n \in Names, bozo \in BOOLEAN :
         AddFeedCall(u, a, n, bozo)
    \/ \E u \in Users, i \in Indexes : RemoveFeedCall(u, i)

SpecRequests == InitRequests /\ [][NextRequests]_vars

\* --------------------------------------------------- one feed, one fetch
\* check_updates at line 112 for subscriber u1's feed a, watermark 1, with
\* what the fetch returned: up to MaxListing entries in any order of dates.
ListingTimes == {1, 2, 3}   \* at the watermark, and two seconds above it

Listings ==
    UNION {{[i \in 1..n |-> [id |-> i, published_parsed |-> StructTime(t[i])]] :
              t \in [1..n -> ListingTimes]} : n \in 0..MaxListing}

InitNotify ==
    /\ \E e \in Listings :
         /\ web = [u \in Urls |-> IF u = "a" THEN e ELSE <<>>]
         /\ parsed = [bozo |-> FALSE, entries |-> e]
    /\ feeds = <<Item("u1", <<"a">>)>>
    /\ last_check = [a \in {"a"} |-> 1]
    /\ feeds_file = feeds
    /\ last_check_file = last_check
    /\ ret = NoRet
    /\ now = 3
    /\ pc = "parsed"
    /\ di_used = 1
    /\ di_pos = 1
    /\ user_id = "u1"
    /\ li_index = 1
    /\ url = "a"
    /\ name = FeedTitle("a")
    /\ lc = 1
    /\ new_entries = <<>>
    /\ message = <<>>
    /\ pushed = <<>>
    /\ notifiedPrev = {}
    /\ notifiedCur = {}
    /\ selected = {}
    /\ fresh = {}
    /\ polled = {}
    /\ visits = EmptyDict
    /\ requests = 0
    /\ peer_feeds = <<>>
    /\ peer_last_check = EmptyDict
    /\ peer_pc = "idle"
    /\ peer_todo = <<>>
    /\ call = NoCall
    /\ since = EmptyDict
    /\ due = {}
    /\ NoBackup

NextNotify ==
    \/ Process /\ UNCHANGED aside
    \/ Advance /\ UNCHANGED aside

SpecNotify == InitNotify /\ [][NextNotify]_vars

\* ------------------------------------------------- a feed that never answers
\* line 108: feedparser.parse(url) is called without a timeout, and nothing
\* in the program sets one; when the server accepts the connection and never
\* answers, the call does not return and check_updates stays at line 108.
FetchHangs ==
    /\ pc = "fetching"
    /\ pc' = "hung"
    /\ UNCHANGED <<prog, env, locals, di_used, di_pos, requests>>

NextLive ==
    \/ \E r \in AddInputs : AddFeed(r[1], r[2], r[3]) /\ UNCHANGED aside
    \/ StartCycle /\ UNCHANGED aside
    \/ Advance /\ UNCHANGED aside
    \/ Fetch /\ UNCHANGED aside
    \/ FetchHangs /\ UNCHANGED aside
    \/ Process /\ UNCHANGED aside

\* the scheduler thread keeps running: a fetch that is under way comes to
\* its outcome, and a loop body that can go on does
SpecLive ==
    /\ Init
    /\ [][NextLive]_vars
    /\ WF_vars((Fetch \/ FetchHangs) /\ UNCHANGED aside)
    /\ WF_vars(Process /\ UNCHANGED aside)
    /\ WF_vars(Advance /\ UNCHANGED aside)

\* ------------------------------------------------------ worker processes
\* gunicorn_config.py starts several worker processes.  Each imports app.py,
\* whose line 47 constructs an RSSService of its own, and __init__ starts a
\* scheduler of its own (line 16): every worker polls on the hour, with its
\* own copy of the registry and of the watermark map, over the same two
\* files.  The variables above follow one worker; the peer_ variables follow
\* a second one, a subscription at a time.

\* the peer is started (again): __init__ loads both files
PeerRestart ==
    /\ peer_feeds' = feeds_file
    /\ peer_last_check' = last_check_file
    /\ peer_pc' = "idle"
    /\ peer_todo' = <<>>
    /\ UNCHANGED <<prog, env, locals, cycle, requests>>

\* the (subscriber, address) pairs of a registry in the order lines 102-103
\* take them
RECURSIVE Flatten(_)
Flatten(d) ==
    IF d = <<>> THEN <<>>
    ELSE [j \in 1..Len(Head(d).subs) |-> <<Head(d).user_id, Head(d).subs[j].url>>]
         \o Flatten(Tail(d))

\* lines 137-145 in the peer: its CronTrigger(minute=0) fires at the same
\* minute as every other worker's; a run still in progress is not doubled
PeerTrigger ==
    IF peer_pc = "idle"
    THEN /\ peer_todo' = Flatten(peer_feeds)
         /\ peer_pc' = IF Flatten(peer_feeds) = <<>> THEN "idle" ELSE "running"
         /\ UNCHANGED <<peer_feeds, peer_last_check>>
    ELSE UNCHANGED peer

\* the hour strikes: the schedulers of both workers fire
Trigger == StartCycle /\ PeerTrigger

\* lines 104-135 in the peer, for the next subscription of its cycle: a feed
\* that parses gets the clock's reading as watermark in the peer's map, and
\* the peer's whole map is written to last_check.json
PeerStep ==
    /\ peer_pc = "running"
    /\ \E bozo \in BOOLEAN :
         IF bozo
         THEN UNCHANGED <<peer_last_check, last_check_file>>
         ELSE /\ peer_last_check' =
                    DictSet(peer_last_check, Head(peer_todo)[2],
                            Watermark(web[Head(peer_todo)[2]], now))
              /\ last_check_file' = peer_last_check'
    /\ peer_todo' = Tail(peer_todo)
    /\ peer_pc' = IF Tail(peer_todo) = <<>> THEN "idle" ELSE "running"
    /\ UNCHANGED <<peer_feeds, feeds, last_check, feeds_file, ret, env, locals,
                   cycle, requests>>

NextWorkers ==
    \/ \E r \in AddInputs : AddFeed(r[1], r[2], r[3]) /\ UNCHANGED aside
    \/ PeerRestart /\ UNCHANGED <<hist, notes, backup>>
    \/ Trigger /\ UNCHANGED <<hist, notes, backup>>
    \/ Advance /\ UNCHANGED aside
    \/ Fetch /\ UNCHANGED aside
    \/ Process /\ UNCHANGED aside
    \/ PeerStep /\ UNCHANGED <<hist, notes, backup>>

\* two of the worker processes side by side
SpecWorkers == Init /\ [][NextWorkers]_vars

\* ------------------------------------------- a file that cannot be written
\* save_feeds (lines 25-28) and save_last_check (lines 37-40) open their file
\* for writing.  When open raises (a volume that is read-only or full, a
\* missing permission) the file keeps its content and the exception reaches
\* the except clause of the caller, which returns the generic failure.  What
\* the handler did in memory before the write stays done.

\* add_feed, lines 42-76, when save_feeds (at = "feeds", line 68) or
\* save_last_check (at = "last_check", line 72) raises
AddFeedUnwritable(u, a, n, at) ==
    LET nm == ResolveName(n, a)
        d1 == IF HasKey(feeds, u) THEN feeds
              ELSE Append(feeds, [user_id |-> u, subs |-> <<>>])
    IN /\ requests < MaxRequests
       /\ requests' = requests + 1
       /\ ~HasUrl(Subs(d1, u), a)
       /\ feeds' = SetSubs(d1, u, Append(Subs(d1, u), [url |-> a, name |-> nm]))
       /\ IF at = "feeds"
          THEN UNCHANGED <<feeds_file, last_check, last_check_file>>
          ELSE /\ feeds_file' = feeds'
               /\ last_check' = DictSet(last_check, a, InitialWatermark(now))
               /\ UNCHANGED last_check_file
       /\ ret' = [ok |-> FALSE, kind |-> "error", name |-> ""]
       /\ call' = [op |-> "add", user_id |-> u, url |-> a, name |-> n,
                   bozo |-> FALSE, feed_index |-> 0]
       /\ UNCHANGED <<env, locals, cycle, hist, peer, since, due, backup>>

\* remove_feed, lines 78-88, when save_feeds (line 85) raises
RemoveFeedUnwritable(u, feed_index) ==
    LET l == Subs(feeds, u)
        pos == PopPos(Len(l), feed_index)
    IN /\ requests < MaxRequests
       /\ requests' = requests + 1
       /\ ~NotFound(feeds, u, feed_index)
       /\ pos # 0
       /\ feeds' = SetSubs(feeds, u, RemoveAt(l, pos))
       /\ ret' = [ok |-> FALSE, kind |-> "error", name |-> ""]
       /\ call' = [op |-> "remove", user_id |-> u, url |-> "", name |-> "",
                   bozo |-> FALSE, feed_index |-> feed_index]
       /\ UNCHANGED <<feeds_file, last_check, last_check_file, env, locals,
                      cycle, hist, peer, since, due, backup>>

NextUnwritable ==
    \/ \E u \in Users, a \in Urls, n \in Names, bozo \in BOOLEAN :
         AddFeedCall(u, a, n, bozo)
    \/ \E u \in Users, i \in Indexes : RemoveFeedCall(u, i)
    \/ \E u \in Users, a \in Urls, n \in Names, at \in {"feeds", "last_check"} :
         AddFeedUnwritable(u, a, n, at)
    \/ \E u \in Users, i \in Indexes : RemoveFeedUnwritable(u, i)

\* the requests, on a volume that can refuse a write
SpecUnwritable == InitRequests /\ [][NextUnwritable]_vars

\* --------------------------------------------- requests served by two workers
\* A webhook request goes to whichever worker process accepts it.  The worker
\* runs add_feed on its own self.feeds and self.last_check, loaded when it
\* started (lines 13-14), and save_feeds and save_last_check dump its whole
\* copy over the shared file (lines 25-28, 37-40).

\* add_feed(user_id, url, name), lines 42-76, in the peer
PeerAddFeed(u, a, n) ==
    LET nm == ResolveName(n, a)
        d1 == IF HasKey(peer_feeds, u) THEN peer_feeds
              ELSE Append(peer_feeds, [user_id |-> u, subs |-> <<>>])
    IN /\ requests < MaxRequests
       /\ requests' = requests + 1
       /\ \E bozo \in BOOLEAN :
            IF Invalid(bozo)
            THEN /\ ret' = [ok |-> FALSE, kind |-> "invalid", name |-> ""]
                 /\ UNCHANGED <<peer_feeds, peer_last_check, feeds_file, last_check_file>>
            ELSE IF HasUrl(Subs(d1, u), a)
            THEN /\ peer_feeds' = d1
                 /\ ret' = [ok |-> FALSE, kind |-> "duplicate", name |-> ""]
                 /\ UNCHANGED <<peer_last_check, feeds_file, last_check_file>>
            ELSE /\ peer_feeds' = SetSubs(d1, u, Append(Subs(d1, u), [url |-> a, name |-> nm]))
                 /\ feeds_file' = peer_feeds'
                 /\ peer_last_check' = DictSet(peer_last_check, a, InitialWatermark(now))
                 /\ last_check_file' = peer_last_check'
                 /\ ret' = [ok |-> TRUE, kind |-> "subscribed", name |-> nm]
       /\ UNCHANGED <<feeds, last_check, env, locals, cycle, peer_pc, peer_todo>>

\* the subscriptions whose add_feed returned success, with the time of the call
ObsAccepted(u, a) ==
    /\ since' = IF ret'.ok
                THEN [q \in DOMAIN since \cup {<<u, a>>} |->
                        IF q \in DOMAIN since THEN since[q] ELSE now]
                ELSE since
    /\ UNCHANGED <<hist, call, due, backup>>

NextShared ==
    \/ \E u \in Users, a \in Urls, n \in Names :
         AddFeed(u, a, n) /\ ObsAccepted(u, a) /\ UNCHANGED peer
    \/ \E u \in Users, a \in Urls, n \in Names :
         PeerAddFeed(u, a, n) /\ ObsAccepted(u, a)
    \/ PeerRestart /\ UNCHANGED <<hist, notes, backup>>
    \/ Tick /\ UNCHANGED aside

\* two workers serving 'rss add' over the same two files
SpecShared == Init /\ [][NextShared]_vars

\* ------------------------------------------------- the 'rss remove' command
\* str(i) as the f-string of line 97 writes a number, and int(s) as line 589
\* reads one: a text is a sequence of characters
Digits == <<"0", "1", "2", "3", "4", "5", "6", "7", "8", "9">>

RECURSIVE Decimal(_)
Decimal(k) ==
    IF k < 0 THEN <<"-">> \o Decimal(0 - k)
    ELSE IF k < 10 THEN <<Digits[k + 1]>>
    ELSE Decimal(k \div 10) \o <<Digits[(k % 10) + 1]>>

DigitValue(c) == (CHOOSE i \in 1..10 : Digits[i] = c) - 1

IsDigits(s) == s # <<>> /\ \A i \in 1..Len(s) : \E j \in 1..10 : Digits[j] = s[i]

\* int(s) raises ValueError on every other text
IsNumeral(s) ==
    s # <<>> /\ IF Head(s) \in {"-", "+"} THEN IsDigits(Tail(s)) ELSE IsDigits(s)

RECURSIVE ParseDigits(_)
ParseDigits(s) ==
    IF s = <<>> THEN 0
    ELSE ParseDigits(SubSeq(s, 1, Len(s) - 1)) * 10 + DigitValue(s[Len(s)])

ParseInt(s) ==
    IF Head(s) = "-" THEN 0 - ParseDigits(Tail(s))
    ELSE IF Head(s) = "+" THEN ParseDigits(Tail(s))
    ELSE ParseDigits(s)

\* the number typed is passed on as it is
RemoveIndexSame(arg) == ParseInt(arg)

\* line 589: index = int(text[11:].strip()) - 1
RemoveIndex(arg) == ParseInt(arg) - 1

\* the words a subscriber can type after 'rss remove '
Args == {Decimal(k) : k \in (0 - 1)..(MaxIndex + 2)} \cup {<<"x">>, <<"+", "1">>, <<"0", "2">>}

\* handle_text_message, lines 587-597: 'rss remove <arg>' from subscriber u
RssRemove(u, arg) ==
    /\ IF IsNumeral(arg)
       THEN RemoveFeed(u, RemoveIndex(arg))
       ELSE /\ requests < MaxRequests
            /\ requests' = requests + 1
            /\ ret' = [ok |-> FALSE, kind |-> "valueerror", name |-> ""]
            /\ UNCHANGED <<feeds, feeds_file, last_check, last_check_file,
                           env, locals, cycle>>
    /\ call' = [op |-> "rss remove", user_id |-> u, url |-> "", name |-> "",
                bozo |-> FALSE,
                feed_index |-> IF IsNumeral(arg) THEN RemoveIndex(arg) ELSE 0]
    /\ UNCHANGED <<hist, peer, since, due, backup>>

NextCommands ==
    \/ \E u \in Users, a \in Urls, n \in Names, bozo \in BOOLEAN :
         AddFeedCall(u, a, n, bozo)
    \/ \E u \in Users, arg \in Args : RssRemove(u, arg)

\* the chat commands served one after another
SpecCommands == InitRequests /\ [][NextCommands]_vars

\* ----------------------------------------------------------- album backup
\* handle_text_message (app.py, from line 306) serves the backup commands of a
\* group chat with album_backup_service.  A text is a sequence of characters;
\* the Chinese characters of the commands are written by their readings:
\* "bei" "fen" is the two-character word of line 311, "bei" "fen" "zhuang"
\* "tai" the text of line 389, "yun" "duan" "xiang" "bu" the text of line 402.
BackupWord == <<"bei", "fen">>
StatusText == <<"bei", "fen", "zhuang", "tai">>
CloudText == <<"yun", "duan", "xiang", "bu">>

\* str.lower() and str.strip(), line 307
Uppers == <<"A", "B", "C", "D", "E", "F", "G", "H", "I", "J", "K", "L", "M",
            "N", "O", "P", "Q", "R", "S", "T", "U", "V", "W", "X", "Y", "Z">>
Lowers == <<"a", "b", "c", "d", "e", "f", "g", "h", "i", "j", "k", "l", "m",
            "n", "o", "p", "q", "r", "s", "t", "u", "v", "w", "x", "y", "z">>

LowerChar(c) ==
    IF \E i \in 1..Len(Uppers) : Uppers[i] = c
    THEN Lowers[CHOOSE i \in 1..Len(Uppers) : Uppers[i] = c]
    ELSE c

Lower(s) == [i \in 1..Len(s) |-> LowerChar(s[i])]

RECURSIVE Strip(_)
Strip(s) ==
    IF s = <<>> THEN s
    ELSE IF Head(s) = " " THEN Strip(Tail(s))
    ELSE IF s[Len(s)] = " " THEN Strip(SubSeq(s, 1, Len(s) - 1))
    ELSE s

\* str.startswith
StartsWith(s, prefix) ==
    Len(s) >= Len(prefix) /\ SubSeq(s, 1, Len(prefix)) = prefix

\* the group of the chat, and what get_group_album_list returns for it
\* (line 338): an album named "t" and an album named "zhuang" "tai"
GroupId == "g1"
GroupAlbums == <<[id |-> "al1", name |-> <<"t">>],
                 [id |-> "al2", name |-> <<"zhuang", "tai">>]>>
PhotoIds == {"p1", "p2", "p3"}

\* lines 339-345: the first album of the list with the name, or None
FindAlbum(album_name) ==
    IF \E i \in 1..Len(GroupAlbums) : GroupAlbums[i].name = album_name
    THEN GroupAlbums[CHOOSE i \in 1..Len(GroupAlbums) :
                       /\ GroupAlbums[i].name = album_name
                       /\ \A j \in 1..(i - 1) : GroupAlbums[j].name # album_name]
    ELSE None

\* line 360: the address of a photo's content, split at "/"
ImageUrl(id) ==
    <<"https:", "", "api-data.line.me", "v2", "bot", "message", id, "content">>

\* os.path.basename, line 83: what follows the last "/"
Basename(path) == path[Len(path)]

\* is_image_backed_up(group_id, album_id, image_filename), lines 133-143
is_image_backed_up(rec, group_id, album_id, image_filename) ==
    IF group_id \notin DOMAIN rec THEN FALSE
    ELSE IF album_id \notin DOMAIN rec[group_id] THEN FALSE
    ELSE \E i \in 1..Len(rec[group_id][album_id].images) :
            rec[group_id][album_id].images[i].filename = image_filename

\* backup_album(group_id, album_id, album_name, image_url), lines 70-131,
\* on the record rec, with the status code the download answers: the record
\* afterwards and the result returned
backup_album(rec, group_id, album_id, album_name, image_url, status_code) ==
    LET image_filename == Basename(image_url)
        r1 == IF group_id \in DOMAIN rec THEN rec
              ELSE DictSet(rec, group_id, EmptyDict)
        r2 == IF album_id \in DOMAIN r1[group_id] THEN r1
              ELSE DictSet(r1, group_id,
                     DictSet(r1[group_id], album_id,
                        [name |-> album_name, images |-> <<>>, created_at |-> now]))
        image == [filename |-> image_filename,
                  original_url |-> image_url,
                  backup_path |-> <<"LineGroupAlbums", group_id, album_name,
                                    image_filename>>,
                  backed_up_at |-> now]
        album == r2[group_id][album_id]
    IN IF is_image_backed_up(rec, group_id, album_id, image_filename)
       THEN [rec |-> rec, result |-> "already"]
       ELSE IF status_code # 200
       THEN [rec |-> rec, result |-> "download failed"]
       ELSE [rec |-> DictSet(r2, group_id,
                       DictSet(r2[group_id], album_id,
                          [album EXCEPT !.images = Append(@, image)])),
             result |-> "ok"]

\* lines 358-368: the loop over the photos of the album
RECURSIVE BackupPhotos(_, _, _, _, _, _)
BackupPhotos(rec, group_id, album_id, album_name, photos, status_code) ==
    IF photos = <<>> THEN [rec |-> rec, backup_count |-> 0]
    ELSE LET r == backup_album(rec, group_id, album_id, album_name,
                               ImageUrl(Head(photos)), status_code)
             t == BackupPhotos(r.rec, group_id, album_id, album_name,
                               Tail(photos), status_code)
         IN [rec |-> t.rec,
             backup_count |-> t.backup_count + (IF r.result = "ok" THEN 1 ELSE 0)]

\* get_album_status(group_id), lines 145-170: nothing for the group, or a
\* block (name, number of images) for each album of the group's record
get_album_status(rec, group_id) ==
    IF group_id \notin DOMAIN rec THEN <<"none">>
    ELSE <<"albums", {[name |-> rec[group_id][al].name,
                       images |-> Len(rec[group_id][al].images)] :
                         al \in DOMAIN rec[group_id]}>>

Answer(kind, album_name, count, status) ==
    [kind |-> kind, album_name |-> album_name, count |-> count, status |-> status]

\* the text is one that lines 332-387 take as 'back up this album'
IsBackupCommand(text) == StartsWith(text, BackupWord) /\ Len(text) # 2

\* handle_text_message, lines 306-426, for a message with the text raw from
\* a group chat or from a single user; status_code is what the downloads of
\* line 89 answer while the message is handled
HandleText(raw, source, status_code) ==
    LET text == Lower(Strip(raw))
        album_name == SubSeq(text, 3, Len(text))
        target_album == FindAlbum(album_name)
        photos == DictGet(album_photos, target_album.id, <<>>)
        done == BackupPhotos(albums_record, GroupId, target_album.id,
                             album_name, photos, status_code)
    IN /\ event' = [text |-> raw, source |-> source]
       /\ IF StartsWith(text, BackupWord)
          THEN IF source # "group"
               THEN /\ reply' = Answer("notgroup", <<>>, 0, <<>>)
                    /\ UNCHANGED albums_record
               ELSE IF Len(text) = 2
               THEN /\ reply' = Answer("help", <<>>, 0, <<>>)
                    /\ UNCHANGED albums_record
               ELSE IF target_album = None
               THEN /\ reply' = Answer("notfound", album_name, 0, <<>>)
                    /\ UNCHANGED albums_record
               ELSE /\ albums_record' = done.rec
                    /\ reply' = IF done.backup_count > 0
                                THEN Answer("backed", album_name, done.backup_count, <<>>)
                                ELSE Answer("nothing", album_name, 0, <<>>)
          ELSE IF text = StatusText
          THEN /\ reply' = IF source # "group"
                           THEN Answer("notgroup", <<>>, 0, <<>>)
                           ELSE Answer("status", <<>>, 0,
                                       get_album_status(albums_record, GroupId))
               /\ UNCHANGED albums_record
          ELSE IF text = CloudText
          THEN /\ reply' = IF source # "group"
                           THEN Answer("notgroup", <<>>, 0, <<>>)
                           ELSE Answer("cloud", <<>>, 0, <<>>)
               /\ UNCHANGED albums_record
          ELSE /\ reply' = Answer("other", <<>>, 0, <<>>)
               /\ UNCHANGED albums_record
       /\ UNCHANGED <<album_photos, prog, env, locals, cycle, requests, hist,
                      peer, notes>>

\* a member of the group puts a photo in an album
AddPhoto(album_id, id) ==
    /\ \A al \in DOMAIN album_photos :
          \A i \in 1..Len(album_photos[al]) : album_photos[al][i] # id
    /\ album_photos' = DictSet(album_photos, album_id,
                               Append(DictGet(album_photos, album_id, <<>>), id))
    /\ UNCHANGED <<albums_record, event, reply, prog, env, locals, cycle,
                   requests, hist, peer, notes>>

\* the texts that come in
Texts == {BackupWord, StatusText, StatusText \o <<" ">>, CloudText,
          <<"bei", "fen", "t">>, <<"bei", "fen", "T">>, <<"bei", "fen", "x">>,
          <<"h", "i">>}

NextBackup ==
    \/ \E raw \in Texts, source \in {"group", "user"}, status_code \in {200, 404} :
         HandleText(raw, source, status_code)
    \/ \E i \in 1..Len(GroupAlbums), id \in PhotoIds : AddPhoto(GroupAlbums[i].id, id)

\* the backup commands of one group chat
SpecBackup == Init /\ [][NextBackup]_vars

\* the dated entries of a list, and the ids of those above a watermark
Stamped(entries) == {i \in 1..Len(entries) : Truthy(entries[i].published_parsed)}
Above(entries, w) ==
    {entries[i].id : i \in {j \in Stamped(entries) :
                              Timestamp(entries[j].published_parsed) > w}}

\* ------------------------------------------------------------ history
\* What an observer of the run writes down at each step.  The program reads
\* none of it.
Holds(u, a) == \E i \in 1..Len(Subs(feeds, u)) : Subs(feeds, u)[i].url = a
Gone == Pairs(feeds) \ Pairs(feeds')
Kept(S) == {t \in S : <<t[1], t[2]>> \notin Gone}

ObsPublish(a) ==
    /\ fresh' = fresh \cup {<<u, a, Head(web'[a]).id>> : u \in {v \in Users : Holds(v, a)}}
    /\ UNCHANGED <<notifiedPrev, notifiedCur, selected, polled, visits>>

ObsRemove ==
    /\ fresh' = Kept(fresh)
    /\ polled' = Kept(polled)
    /\ visits' = [q \in (DOMAIN visits) \ Gone |-> visits[q]]
    /\ UNCHANGED <<notifiedPrev, notifiedCur, selected>>

ObsRestart ==
    /\ visits' = EmptyDict
    /\ UNCHANGED <<notifiedPrev, notifiedCur, selected, fresh, polled>>

Visit(v) ==
    IF pc' = "fetching" /\ <<user_id', url'>> \in DOMAIN v
    THEN [v EXCEPT ![<<user_id', url'>>] = IF @ < 2 THEN @ + 1 ELSE @]
    ELSE v

ObsStart ==
    /\ notifiedPrev' = notifiedPrev \cup notifiedCur
    /\ notifiedCur' = {}
    /\ visits' = Visit([q \in Pairs(feeds) |-> 0])
    /\ UNCHANGED <<selected, fresh, polled>>

ObsAdvance ==
    /\ visits' = Visit(visits)
    /\ UNCHANGED <<notifiedPrev, notifiedCur, selected, fresh, polled>>

ObsProcess ==
    /\ selected' = selected \cup {<<user_id, url, i>> : i \in Ids(new_entries')}
    /\ notifiedCur' = notifiedCur \cup
           {<<user_id, url, message'[i]>> : i \in 1..Len(message')}
    /\ polled' = polled \cup
           {t \in fresh : /\ t[1] = user_id
                          /\ t[2] = url
                          /\ \E i \in 1..Len(parsed.entries) :
                               /\ parsed.entries[i].id = t[3]
                               /\ Truthy(parsed.entries[i].published_parsed)}
    /\ UNCHANGED <<notifiedPrev, fresh, visits>>

\* what the cycle that starts owes: the dated entries each subscription's
\* feed lists above the feed's stored watermark
Owed(d, w, lists) ==
    {t \in Users \X Urls \X EntryIds :
        /\ <<t[1], t[2]>> \in Pairs(d)
        /\ t[3] \in Above(lists[t[2]], DictGet(w, t[2], DefaultLastCheck))}

ObsStartDue ==
    /\ due' = Owed(feeds, last_check, web)
    /\ UNCHANGED <<peer, call, since, backup>>

ObsRemoveDue ==
    /\ due' = Kept(due)
    /\ UNCHANGED <<peer, call, since, backup>>

rest == <<peer, notes, backup>>

NextObserved ==
    \/ \E r \in AddInputs : AddFeed(r[1], r[2], r[3]) /\ UNCHANGED hist /\ UNCHANGED rest
    \/ \E u \in Users, i \in Indexes : RemoveFeed(u, i) /\ ObsRemove /\ ObsRemoveDue
    \/ Tick /\ UNCHANGED aside
    \/ \E a \in EntryUrls, p \in Stamps : Publish(a, p) /\ ObsPublish(a) /\ UNCHANGED rest
    \/ Restart /\ ObsRestart /\ UNCHANGED rest
    \/ StartCycle /\ ObsStart /\ ObsStartDue
    \/ Advance /\ ObsAdvance /\ UNCHANGED rest
    \/ Fetch /\ UNCHANGED aside
    \/ Process /\ ObsProcess /\ UNCHANGED rest

\* the same program, with the history written down
SpecObserved == Init /\ [][NextObserved]_vars

\* ------------------------------------------------------------- claims
\* C1: when check_updates has processed a feed that parsed, the entries it
\* collected as new are exactly the fetched entries that carry a parsable
\* published time strictly above the watermark it read for the feed (lc);
\* entries at or below it and entries without a date are left out, and when
\* nothing is above the watermark no message is composed and nothing is pushed.
TheoremC1 ==
    pc = "processed" =>
        /\ Ids(new_entries) = Above(parsed.entries, lc)
        /\ Len(new_entries) = Cardinality(Above(parsed.entries, lc))
        /\ Above(parsed.entries, lc) = {} => message = <<>> /\ pushed = <<>>

\* a processed feed listing an entry dated exactly at the watermark, not selected
WitnessC1 ==
    /\ pc = "processed"
    /\ new_entries = <<>>
    /\ \E i \in Stamped(parsed.entries) :
         Timestamp(parsed.entries[i].published_parsed) = lc

\* C2: an entry put in a message for a subscriber and feed in one poll
\* cycle is in no message for the same subscriber and feed in a later cycle.
CounterC2 == notifiedCur \cap notifiedPrev = {}

\* C3: an entry with a parsable date that appeared in the feed while the
\* subscriber held it, and that a completed poll of that subscription
\* fetched, has been selected as new (an entry the poll passes over stays
\* at or below the watermark from then on, so it is never selected later).
CounterC3 == polled \subseteq selected

\* C4: for a processed (subscriber, feed) pair exactly one push_message call,
\* to that subscriber with the composed message, is made when new entries
\* were selected, and none when there were none.
CounterC4 ==
    pc = "processed" =>
        pushed = IF new_entries # <<>>
                 THEN <<[to |-> user_id, text |-> message]>>
                 ELSE <<>>

NoDuplicates(d) ==
    \A i \in 1..Len(d) : \A j, k \in 1..Len(d[i].subs) :
        d[i].subs[j].url = d[i].subs[k].url => j = k

\* C5: after any sequence of add_feed and remove_feed requests every address
\* is at most once in each subscriber's list, in memory and in rss_feeds.json.
TheoremC5 == NoDuplicates(feeds) /\ NoDuplicates(feeds_file)

\* a second add of an address the subscriber holds was refused
WitnessC5 ==
    /\ ret.kind = "duplicate"
    /\ \E i \in 1..Len(feeds) : Len(feeds[i].subs) >= 1

NeverBelow(d, e) == \A a \in DOMAIN d : a \in DOMAIN e /\ e[a] >= d[a]

\* C6: no step of add_feed, remove_feed, check_updates or a restart lowers
\* or drops the watermark of an address, in memory or in last_check.json.
TheoremC6 ==
    [][NeverBelow(last_check, last_check') /\
       NeverBelow(last_check_file, last_check_file')]_vars

\* a poll has moved a stored watermark forward
WitnessC6 ==
    /\ pc = "processed"
    /\ lc > 0
    /\ last_check[url] > lc
    /\ last_check_file[url] > lc

\* C7: the step that processes a parsed feed leaves the feed's watermark at
\* the clock's reading, in memory and in last_check.json, with every other
\* address as it was; no other step but an add_feed request writes
\* last_check.json, so at any point of a cycle the file holds the advanced
\* watermarks of the feeds processed so far and the old ones of the rest.
TheoremC7 ==
    [][/\ (pc = "parsed" /\ pc' = "processed") =>
            /\ url \in DOMAIN last_check' /\ last_check'[url] = now
            /\ last_check_file' = last_check'
            /\ \A b \in (DOMAIN last_check_file') \ {url} :
                 b \in DOMAIN last_check_file /\ last_check_file'[b] = last_check_file[b]
       /\ (requests' = requests /\ ~(pc = "parsed" /\ pc' = "processed")) =>
            last_check_file' = last_check_file]_vars

\* a feed with a new entry was processed: the watermark is the clock's
\* reading, later than the entry's date
WitnessC7 ==
    /\ pc = "processed"
    /\ new_entries # <<>>
    /\ last_check_file[url] = now
    /\ Timestamp(new_entries[1].published_parsed) < now

\* C8: when the parse of a feed reports bozo, the step composes and pushes
\* nothing, leaves both watermark maps and the iterators where they were and
\* raises nothing; the cycle's next step fetches the subscriber's next
\* subscription, and a bozo feed never reaches the processing step.
TheoremC8 ==
    [][/\ (pc = "fetching" /\ parsed'.bozo) =>
            /\ pc' = "skipped"
            /\ message' = <<>> /\ pushed' = <<>> /\ new_entries' = <<>>
            /\ UNCHANGED <<last_check, last_check_file, feeds,
                           di_used, di_pos, user_id, li_index>>
       /\ (pc = "skipped" /\ pc' \notin {"skipped", "idle"}
             /\ li_index < Len(Subs(feeds, user_id))) =>
            /\ pc' = "fetching"
            /\ user_id' = user_id
            /\ li_index' = li_index + 1
            /\ url' = Subs(feeds, user_id)[li_index + 1].url
       /\ pc' \in {"parsed", "processed"} => ~parsed'.bozo]_vars

\* a bozo feed was skipped with its watermark behind the clock and another
\* feed of the subscriber still to come
WitnessC8 ==
    /\ pc = "skipped"
    /\ parsed.bozo
    /\ url \in DOMAIN last_check
    /\ last_check[url] < now
    /\ li_index < Len(Subs(feeds, user_id))

\* entries of earlier cycles' notifications whose dispatch failed
FailedBefore == {t \in notifiedPrev : ~TextSendMessageBound}

\* C9: when the dispatch of a notification fails, the feed's watermark is
\* still the clock's reading in memory and on disk, the cycle goes on, and
\* no entry of a failed notification of an earlier cycle is selected again.
CounterC9 ==
    [][(pc = "parsed" /\ pc' = "processed" /\ new_entries' # <<>> /\ pushed' = <<>>) =>
           /\ last_check'[url] = now
           /\ last_check_file'[url] = now
           /\ pc' # "raised"
           /\ \A i \in Ids(new_entries') : <<user_id, url, i>> \notin FailedBefore]_vars

\* C10: a cycle that runs while add_feed / remove_feed requests are served
\* is not left by an exception, and when it returns every subscription that
\* was in the registry from its start to its end was processed exactly once.
CounterC10 ==
    /\ pc # "raised"
    /\ pc = "done" => \A q \in DOMAIN visits : visits[q] = 1

\* the states in which the followed worker is inside check_updates
InCycle == pc \in {"fetching", "parsed", "skipped", "processed"}

\* C11: at any time at most one execution of check_updates is in progress
\* against last_check.json, also with several worker processes that each
\* start a scheduler of their own.
CounterC11 == ~(InCycle /\ peer_pc = "running")

\* the step serves a request
Served == requests' # requests

\* C12: an add_feed whose address does not parse, or whose address the
\* subscriber already holds, fails (invalid, respectively duplicate) and
\* leaves the registry, the watermark map and both files as they were, the
\* address still at most once in the subscriber's list.
TheoremC12 ==
    [][(/\ Served
        /\ call'.op = "add"
        /\ call'.bozo \/ HasUrl(Subs(feeds, call'.user_id), call'.url)) =>
            /\ ~ret'.ok
            /\ ret'.kind = IF call'.bozo THEN "invalid" ELSE "duplicate"
            /\ UNCHANGED <<feeds, last_check, feeds_file, last_check_file>>
            /\ Cardinality({i \in 1..Len(Subs(feeds', call'.user_id)) :
                              Subs(feeds', call'.user_id)[i].url = call'.url}) <= 1]_vars

\* an address that parses was refused because the subscriber, who holds
\* two feeds or more, has it already
WitnessC12 ==
    /\ call.op = "add"
    /\ ~call.bozo
    /\ ret.kind = "duplicate"
    /\ Len(Subs(feeds, call.user_id)) >= 2

\* the registry items of the subscribers other than u, in key order
Others(d, u) == SelectSeq(d, LAMBDA it : it.user_id # u)

\* C13: an add_feed that succeeds appends one subscription, the address with
\* the resolved name (the name given, else the feed's title, else the
\* address), at the end of the subscriber's list; the earlier elements and
\* the other subscribers' lists stay; the registry and the watermark map go
\* to their files; the call returns success with the resolved name, and
\* list_feeds shows the subscription as its last line.
TheoremC13 ==
    [][(/\ Served
        /\ call'.op = "add"
        /\ ~call'.bozo
        /\ ~HasUrl(Subs(feeds, call'.user_id), call'.url)) =>
            LET u == call'.user_id
                a == call'.url
                nm == IF call'.name # NoName THEN call'.name
                      ELSE IF a = "a" THEN "Ta" ELSE a
                shown == list_feeds(feeds', u)
            IN /\ Subs(feeds', u) = Append(Subs(feeds, u), [url |-> a, name |-> nm])
               /\ Others(feeds', u) = Others(feeds, u)
               /\ feeds_file' = feeds'
               /\ last_check_file' = last_check'
               /\ a \in DOMAIN last_check_file'
               /\ ret' = [ok |-> TRUE, kind |-> "subscribed", name |-> nm]
               /\ Len(shown) = Len(Subs(feeds, u)) + 1
               /\ shown[Len(shown)] = [no |-> Len(shown), name |-> nm]]_vars

\* a feed without a title was added without a name, behind another feed:
\* the subscription carries the raw address as its name
WitnessC13 ==
    /\ call.op = "add"
    /\ call.name = NoName
    /\ ret.ok
    /\ ret.name = call.url
    /\ Len(Subs(feeds, call.user_id)) >= 2
    /\ Subs(feeds, call.user_id)[Len(Subs(feeds, call.user_id))].name = call.url

\* C14: an add_feed that succeeds for an address that has a watermark
\* leaves that watermark as it was, in memory and in last_check.json.
CounterC14 ==
    [][(/\ Served
        /\ call'.op = "add"
        /\ ret'.ok
        /\ call'.url \in DOMAIN last_check) =>
            /\ last_check'[call'.url] = last_check[call'.url]
            /\ last_check_file'[call'.url] = last_check[call'.url]]_vars

\* C15: a remove_feed for an unknown subscriber, or with an index below 0 or
\* at or above the length of the subscriber's list, returns the not-found
\* failure and leaves the registry as it was.
CounterC15 ==
    [][(/\ Served
        /\ call'.op = "remove"
        /\ \/ ~HasKey(feeds, call'.user_id)
           \/ call'.feed_index < 0
           \/ call'.feed_index >= Len(Subs(feeds, call'.user_id))) =>
            /\ ret'.kind = "notfound"
            /\ UNCHANGED <<feeds, feeds_file>>]_vars

\* C16: a remove_feed with an index inside the subscriber's list takes out
\* the subscription at that position, the later ones moving down by one in
\* their order; it returns the removed subscription's name, writes the
\* registry to its file, and leaves the watermark map, its file and the
\* other subscribers' lists as they were.
TheoremC16 ==
    [][(/\ Served
        /\ call'.op = "remove"
        /\ HasKey(feeds, call'.user_id)
        /\ call'.feed_index >= 0
        /\ call'.feed_index < Len(Subs(feeds, call'.user_id))) =>
            LET u == call'.user_id
                k == call'.feed_index + 1
                old == Subs(feeds, u)
                new == Subs(feeds', u)
            IN /\ Len(new) = Len(old) - 1
               /\ \A j \in 1..Len(new) : new[j] = IF j < k THEN old[j] ELSE old[j + 1]
               /\ ret' = [ok |-> TRUE, kind |-> "removed", name |-> old[k].name]
               /\ Others(feeds', u) = Others(feeds, u)
               /\ HasKey(feeds', u)
               /\ feeds_file' = feeds'
               /\ UNCHANGED <<last_check, last_check_file>>]_vars

\* the first of three subscriptions was removed: two are left
WitnessC16 ==
    /\ call.op = "remove"
    /\ call.feed_index = 0
    /\ ret.kind = "removed"
    /\ Len(Subs(feeds, call.user_id)) = 2

\* the published times of the entries a message lists
MessageTimes ==
    {Timestamp(parsed.entries[j].published_parsed) :
        j \in {k \in Stamped(parsed.entries) :
                 \E i \in 1..Len(message) : message[i] = parsed.entries[k].id}}

\* C17: no message composed for a subscriber and feed lists an entry
\* published before that subscription was added, also after a restart that
\* follows a crash between add_feed's registry write and its watermark write.
CounterC17 ==
    (pc = "processed" /\ <<user_id, url>> \in DOMAIN since) =>
        \A t \in MessageTimes : t >= since[<<user_id, url>>]

\* the published time of the fetched entry with the given id
TimeOf(id) ==
    Timestamp((CHOOSE x \in {parsed.entries[j] : j \in 1..Len(parsed.entries)} :
                 x.id = id).published_parsed)

Shown == {message[i] : i \in 1..Len(message)}

\* C18: the message composed for n selected entries lists min(5, n) of
\* them, and when n is above 5 none of the entries left out is more recent
\* than an entry listed, in whatever order the feed lists its entries.
CounterC18 ==
    pc = "processed" =>
        /\ Cardinality(Shown) = IF Len(new_entries) < 5 THEN Len(new_entries) ELSE 5
        /\ Shown \subseteq Ids(new_entries)
        /\ \A i \in Shown : \A j \in Ids(new_entries) \ Shown : TimeOf(i) >= TimeOf(j)

\* C19: a poll cycle that has started a fetch eventually ends, also when
\* the feed never answers.
CounterC19 == (pc = "fetching") ~> (pc \in {"done", "raised"})

\* the subscribers that hold an address
Holders(a) == {u \in Users : Holds(u, a)}

\* C20: when two or more subscribers hold an address, the processing of each
\* of their subscriptions in a cycle selects every dated entry the feed
\* listed above the shared watermark when the cycle started.
CounterC20 ==
    [][(pc = "parsed" /\ pc' = "processed" /\ Cardinality(Holders(url)) >= 2) =>
           \A t \in due : (t[1] = user_id /\ t[2] = url) => t[3] \in Ids(new_entries')]_vars

\* C21: a call of add_feed or remove_feed that returns a failure result,
\* the generic failure after a write that raised included, leaves the
\* in-memory registry and the in-memory watermark map as they were.
CounterC21 == [][(Served /\ ~ret'.ok) => UNCHANGED <<feeds, last_check>>]_vars

\* C22: with several worker processes, a subscription whose add_feed returned
\* success is in the persisted registry file from then on (no remove_feed is
\* served here), whichever worker writes the file next.
CounterC22 == \A q \in DOMAIN since : q \in Pairs(feeds_file)

\* what 'rss list' shows once line number N is struck out and the lines
\* after it move up
Renumbered(shown, N) ==
    [i \in 1..(Len(shown) - 1) |->
        [no |-> i, name |-> shown[IF i < N THEN i ELSE i + 1].name]]

\* C23: for a subscriber whose 'rss list' shows n subscriptions numbered
\* 1..n, 'rss remove N' with the number N of a shown line (1 <= N <= n),
\* typed as the list wrote it, removes the subscription shown as number N
\* and reports its name, and the following 'rss list' shows the other n-1
\* subscriptions numbered 1..n-1 in the same relative order.
TheoremC23 ==
    [][\A u \in Users : \A N \in 1..Len(list_feeds(feeds, u)) :
         RssRemove(u, Decimal(list_feeds(feeds, u)[N].no)) =>
            /\ ret'.ok
            /\ ret'.name = list_feeds(feeds, u)[N].name
            /\ Subs(feeds', u) = RemoveAt(Subs(feeds, u), N)
            /\ Others(feeds', u) = Others(feeds, u)
            /\ list_feeds(feeds', u) = Renumbered(list_feeds(feeds, u), N)]_vars

\* 'rss remove 2' has taken the second of three subscriptions
WitnessC23 ==
    /\ call.op = "rss remove"
    /\ call.user_id = "u1"
    /\ call.feed_index = 1
    /\ ret.ok
    /\ requests = 1
    /\ Len(list_feeds(feeds, "u1")) = 2

\* C24: when the text that was handled last is the status command of line
\* 389 and came from a group chat, the reply is that of the status branch:
\* get_album_status for the group.
CounterC24 ==
    (Lower(Strip(event.text)) = StatusText /\ event.source = "group") =>
        /\ reply.kind = "status"
        /\ reply.status = get_album_status(albums_record, GroupId)

\* the manifest has a record of the photo id in the album
HasRecord(rec, album_id, id) ==
    /\ GroupId \in DOMAIN rec
    /\ album_id \in DOMAIN rec[GroupId]
    /\ \E i \in 1..Len(rec[GroupId][album_id].images) :
          rec[GroupId][album_id].images[i].original_url = ImageUrl(id)

\* the photo ids of an album
PhotosOf(album_id) ==
    {DictGet(album_photos, album_id, <<>>)[i] :
        i \in 1..Len(DictGet(album_photos, album_id, <<>>))}

\* C25: when the backup command is handled for an album of the group and the
\* downloads and uploads succeed, afterwards every photo of the album has a
\* record of its own in the manifest, the count that is reported is the
\* number of photos that had no record before, and when every photo had a
\* record before, no record is added and no new photo is reported.
CounterC25 ==
    [][\A raw \in Texts : \A i \in 1..Len(GroupAlbums) :
         (/\ HandleText(raw, "group", 200)
          /\ IsBackupCommand(Lower(Strip(raw)))
          /\ FindAlbum(SubSeq(Lower(Strip(raw)), 3, Len(Lower(Strip(raw))))) = GroupAlbums[i])
         => LET al == GroupAlbums[i].id
                had == {p \in PhotosOf(al) : HasRecord(albums_record, al, p)}
            IN /\ \A p \in PhotosOf(al) : HasRecord(albums_record', al, p)
               /\ reply'.count = Cardinality(PhotosOf(al) \ had)
               /\ (had = PhotosOf(al) =>
                      /\ albums_record' = albums_record
                      /\ reply'.kind = "nothing")]_vars

====
